---- MODULE Spec2Model ----
(***************************************************************************)
(* Model of the price comparison tool of retail-scraper:                   *)
(*   Price-Comparison-Tool/dynamic-price-compare-long.py   (mode "long")   *)
(*   Price-Comparison-Tool/dynamic-price-compare-short.py  (mode "short")  *)
(* Both scripts scan the three retailer folders, build category_map, and   *)
(* run one comparison pass per category.                                   *)
(*                                                                         *)
(* Text cells are sequences of one-character strings.  An empty cell (NaN) *)
(* of a text column is the one-element sequence NaNText; an empty or       *)
(* unparseable numeric cell is NaN.  Confidence values are integers in     *)
(* hundredths of a percent (100.0 is 10000).                               *)
(***************************************************************************)
EXTENDS Integers, Sequences, FiniteSets, TLC

\* ------------------------------------------------------------------ bounds
MaxListings == 3
MaxFiles == 4
MaxPerFolder == 2

\* --------------------------------------------------------------- constants
HIGHLIGHT_CONFIDENCE_WEAK == 30
HIGHLIGHT_CONFIDENCE_UNMATCHED == 10
CONFIDENCE_THRESHOLD == 10
HIGHLIGHT_THRESHOLD == 30

NaN == -1
Unparseable == -2
None == -3
NaNText == <<"NaN">>
NoRetailer == "None"

\* RETAILER_FOLDERS in iteration (insertion) order; folders are numbered 1..3.
RETAILER_FOLDERS(m) ==
  IF m = "long" THEN <<"2B", "Btech", "Raneen">> ELSE <<"2B", "BTECH", "RANEEN">>

Folders == 1..3

LongCols == {"Item Name", "New Price", "Normalized Code"}

REQUIRED_COLUMNS(m) ==
  IF m = "long" THEN LongCols ELSE LongCols \cup {"Product URL"}

\* ------------------------------------------------------------ text helpers
\* Characters in code-point order (the ones the model's strings use).
Alphabet == <<" ", "/", "1", "A", "B", "N", "X", "Y", "a", "b", "n", "x", "y">>

CharRank(c) == CHOOSE i \in 1..Len(Alphabet) : Alphabet[i] = c

\* str.lower() on one character.
LowerChar(c) ==
  CASE c = "A" -> "a" [] c = "B" -> "b" [] c = "N" -> "n"
    [] c = "X" -> "x" [] c = "Y" -> "y" [] OTHER -> c

Lower(s) == [i \in 1..Len(s) |-> LowerChar(s[i])]

RECURSIVE LStrip(_)
LStrip(s) == IF s # <<>> /\ Head(s) = " " THEN LStrip(Tail(s)) ELSE s

RECURSIVE RStrip(_)
RStrip(s) ==
  IF s # <<>> /\ s[Len(s)] = " " THEN RStrip(SubSeq(s, 1, Len(s) - 1)) ELSE s

\* str.strip()
Strip(s) == RStrip(LStrip(s))

\* astype(str): an empty cell becomes the text "nan".
AsStr(s) == IF s = NaNText THEN <<"n", "a", "n">> ELSE s

\* Python's order on str (lexicographic by code point).
RECURSIVE StrLess(_, _)
StrLess(s, t) ==
  IF t = <<>> THEN FALSE
  ELSE IF s = <<>> THEN TRUE
  ELSE IF Head(s) # Head(t) THEN CharRank(Head(s)) < CharRank(Head(t))
  ELSE StrLess(Tail(s), Tail(t))

\* The elements of a finite set of strings in ascending order (groupby sorts its keys).
RECURSIVE SortedStrs(_)
SortedStrs(S) ==
  IF S = {} THEN <<>>
  ELSE LET m == CHOOSE x \in S : \A y \in S \ {x} : StrLess(x, y)
       IN <<m>> \o SortedStrs(S \ {m})

Max(S) == CHOOSE x \in S : \A y \in S : y <= x
Min(S) == CHOOSE x \in S : \A y \in S : x <= y

\* Python's round(): n/d to the nearest integer, halves to the even neighbour.
Round(n, d) ==
  LET q == n \div d
      r == n % d
  IN IF 2 * r > d THEN q + 1
     ELSE IF 2 * r = d THEN q + (q % 2)
     ELSE q

\* ------------------------------------------------- difflib.SequenceMatcher
\* Length of the common run of a[i..ahi] and b[j..bhi] starting at (i, j).
RECURSIVE CommonLen(_, _, _, _, _, _)
CommonLen(a, b, i, j, ahi, bhi) ==
  IF i > ahi \/ j > bhi THEN 0
  ELSE IF a[i] # b[j] THEN 0
  ELSE 1 + CommonLen(a, b, i + 1, j + 1, ahi, bhi)

\* find_longest_match(alo, ahi, blo, bhi): the longest matching block; of the
\* longest, the one starting earliest in a, and of those the earliest in b.
\* Ranges are 1-based and inclusive.  <<i, j, k>> with k = 0 when none.
find_longest_match(a, b, alo, ahi, blo, bhi) ==
  LET cand == {<<i, j>> \in (alo..ahi) \X (blo..bhi) : a[i] = b[j]}
  IN IF cand = {} THEN <<alo, blo, 0>>
     ELSE LET size(p) == CommonLen(a, b, p[1], p[2], ahi, bhi)
              best == Max({size(p) : p \in cand})
              top == {p \in cand : size(p) = best}
              i0 == Min({p[1] : p \in top})
              j0 == Min({p[2] : p \in {q \in top : q[1] = i0}})
          IN <<i0, j0, best>>

\* Sum of the sizes of get_matching_blocks(): the longest block, then the same
\* to its left and to its right.
RECURSIVE MatchingSize(_, _, _, _, _, _)
MatchingSize(a, b, alo, ahi, blo, bhi) ==
  IF alo > ahi \/ blo > bhi THEN 0
  ELSE LET m == find_longest_match(a, b, alo, ahi, blo, bhi)
       IN IF m[3] = 0 THEN 0
          ELSE m[3]
               + MatchingSize(a, b, alo, m[1] - 1, blo, m[2] - 1)
               + MatchingSize(a, b, m[1] + m[3], ahi, m[2] + m[3], bhi)

\* SequenceMatcher(None, a, b).ratio() as the fraction <<numerator, denominator>>:
\* 2*M/T, and 1.0 when both are empty.
Ratio(a, b) ==
  IF Len(a) + Len(b) = 0 THEN <<1, 1>>
  ELSE <<2 * MatchingSize(a, b, 1, Len(a), 1, Len(b)), Len(a) + Len(b)>>

\* ----------------------------------------------------------- confidence
\* Whether fraction p is less than fraction q.
FracLess(p, q) == p[1] * q[2] < q[1] * p[2]

\* max() of a non-empty sequence of fractions (the first of the greatest).
MaxFrac(fs) ==
  fs[CHOOSE i \in 1..Len(fs) :
       /\ \A j \in 1..Len(fs) : ~FracLess(fs[i], fs[j])
       /\ \A j \in 1..(i - 1) : FracLess(fs[j], fs[i])]

\* sum() of a sequence of fractions.
RECURSIVE SumFrac(_)
SumFrac(fs) ==
  IF fs = <<>> THEN <<0, 1>>
  ELSE LET r == SumFrac(Tail(fs))
       IN <<Head(fs)[1] * r[2] + r[1] * Head(fs)[2], Head(fs)[2] * r[2]>>

\* long: match_score(a, b)
match_score(a, b) ==
  IF a = NaNText \/ b = NaNText THEN <<0, 1>> ELSE Ratio(AsStr(a), AsStr(b))

\* Mutant of LongConfidence: the third pair left out.
LongConfidence_TwoPairs(names) ==
  LET m == MaxFrac(<<match_score(names[1], names[2]),
                     match_score(names[1], names[3])>>)
  IN Round(10000 * m[1], m[2])

\* long: round(max([three match_score pairs]) * 100, 2), in hundredths.
LongConfidence(names) ==
  LET m == MaxFrac(<<match_score(names[1], names[2]),
                     match_score(names[1], names[3]),
                     match_score(names[2], names[3])>>)
  IN Round(10000 * m[1], m[2])

\* short: the pairs (i, j), i < j, in the order of the list comprehension.
RECURSIVE PairsFrom(_, _, _)
PairsFrom(n, i, j) ==
  IF i >= n THEN <<>>
  ELSE IF j > n THEN PairsFrom(n, i + 1, i + 2)
  ELSE <<<<i, j>>>> \o PairsFrom(n, i, j + 1)

\* short: SequenceMatcher(None, a, b) raises TypeError on a cell that is no text.
RaisesTypeError(names) ==
  Len(names) >= 2 /\ \E i \in 1..Len(names) : names[i] = NaNText

\* short: compute_confidence(names), in hundredths (a multiple of 10: one decimal).
compute_confidence(names) ==
  IF Len(names) < 2 THEN 0
  ELSE LET pairs == PairsFrom(Len(names), 1, 2)
           scores == [k \in 1..Len(pairs) |-> Ratio(names[pairs[k][1]], names[pairs[k][2]])]
           s == SumFrac(scores)
       IN 10 * Round(1000 * s[1], s[2] * Len(scores))

\* ------------------------------------------------------------ normalizer
\* pd.to_numeric(errors="coerce")
to_numeric(p) == IF p < 0 THEN NaN ELSE p

\* The rows of a table whose code is in (keep = TRUE) or not in the set cs.
FilterCodes(rows, cs, keep) ==
  LET Test(r) == (r.code \in cs) = keep IN SelectSeq(rows, Test)

Filter(rows, key) ==
  LET Test(r) == r.retailer = key IN SelectSeq(rows, Test)

NoUrl == <<>>

\* prepare without the test of line 44: a table is taken whatever its columns.
prepare_AnyColumns(df, retailer) ==
  LET HasCode(r) == r.code # NaNText
      kept == SelectSeq(df.rows, HasCode)
  IN << [i \in 1..Len(kept) |->
          [name |-> Strip(AsStr(kept[i].name)),
           price |-> to_numeric(kept[i].price),
           code |-> Lower(Strip(AsStr(kept[i].code))),
           url |-> NoUrl,
           retailer |-> retailer]] >>

\* long: prepare(df, retailer); <<>> is None, else <<rows>>.
prepare(df, retailer) ==
  IF ~(REQUIRED_COLUMNS("long") \subseteq df.cols) THEN <<>>
  ELSE LET HasCode(r) == r.code # NaNText
           kept == SelectSeq(df.rows, HasCode)
       IN << [i \in 1..Len(kept) |->
               [name |-> Strip(AsStr(kept[i].name)),
                price |-> to_numeric(kept[i].price),
                code |-> Lower(Strip(AsStr(kept[i].code))),
                url |-> NoUrl,
                retailer |-> retailer]] >>

\* short: the body of the reading loop; <<>> when the retailer is skipped.
ShortPrepare(df, retailer) ==
  IF ~(REQUIRED_COLUMNS("short") \subseteq df.cols) THEN <<>>
  ELSE << [i \in 1..Len(df.rows) |->
            [name |-> df.rows[i].name,
             price |-> to_numeric(df.rows[i].price),
             code |-> Lower(AsStr(df.rows[i].code)),
             url |-> df.rows[i].url,
             retailer |-> retailer]] >>

\* ------------------------------------------------------- grouping engine
CodesOf(rows) == {rows[i].code : i \in 1..Len(rows)}

GroupOf(rows, code) == FilterCodes(rows, {code}, TRUE)

RetailersOf(rows) == {rows[i].retailer : i \in 1..Len(rows)}

\* group["Retailer"].nunique()
nunique(group) == Cardinality(RetailersOf(group))

NA_NAME == <<"N", "/", "A">>

\* Mutant of LongBest: the greatest price instead of the least.
LongBest_Max(prices) ==
  LET known == {i \in Folders : prices[i] # NaN}
  IN IF known = {} THEN [price |-> None, retailer |-> NoRetailer]
     ELSE LET best == Max({prices[i] : i \in known})
              r == Min({i \in known : prices[i] = best})
          IN [price |-> best, retailer |-> RETAILER_FOLDERS("long")[r]]

\* Mutant of LongBest: min() with a default of 0 when no price is known.
LongBest_Zero(prices) ==
  LET known == {i \in Folders : prices[i] # NaN}
  IN IF known = {} THEN [price |-> 0, retailer |-> NoRetailer]
     ELSE LET best == Min({prices[i] : i \in known})
              r == Min({i \in known : prices[i] = best})
          IN [price |-> best, retailer |-> RETAILER_FOLDERS("long")[r]]

\* ------------------------------------------------------- price resolver
\* long: min(prices.values()), min(prices, key=prices.get) over the slots with a
\* known price, in RETAILER_FOLDERS order; (None, None) when there is none.
LongBest(prices) ==
  LET known == {i \in Folders : prices[i] # NaN}
  IN IF known = {} THEN [price |-> None, retailer |-> NoRetailer]
     ELSE LET best == Min({prices[i] : i \in known})
              r == Min({i \in known : prices[i] = best})
          IN [price |-> best, retailer |-> RETAILER_FOLDERS("long")[r]]

\* long: the merged row of one group (one name/price slot per retailer, taken
\* from the retailer's first listing of the group).
LongMerged(code, group, conf) ==
  LET slot(i) == Filter(group, RETAILER_FOLDERS("long")[i])
      names == [i \in Folders |-> IF slot(i) # <<>> THEN slot(i)[1].name ELSE NA_NAME]
      prices == [i \in Folders |-> IF slot(i) # <<>> THEN slot(i)[1].price ELSE NaN]
      best == LongBest(prices)
  IN [code |-> code, names |-> names, prices |-> prices,
      conf |-> IF conf = None THEN LongConfidence(names) ELSE conf,
      best_price |-> best.price, best_retailer |-> best.retailer]

\* Mutant of idxmin: the last row holding the least price.
idxmin_Last(group) ==
  LET best == Min({group[i].price : i \in 1..Len(group)})
  IN Max({i \in 1..Len(group) : group[i].price = best})

\* short: group["New Price"].idxmin(): the first row holding the least price.
idxmin(group) ==
  LET best == Min({group[i].price : i \in 1..Len(group)})
  IN Min({i \in 1..Len(group) : group[i].price = best})

\* short: group.dropna(subset=["New Price"])
dropna_price(group) ==
  LET Priced(r) == r.price # NaN IN SelectSeq(group, Priced)

\* ShortResult with the item name and URL of the first row of the group instead
\* of the cheapest.
ShortResult_FirstRow(code, group) ==
  LET best_row == group[idxmin(group)]
  IN [name |-> group[1].name, code |-> code,
      conf |-> compute_confidence([i \in 1..Len(group) |-> group[i].name]),
      best_price |-> best_row.price, best_retailer |-> best_row.retailer,
      url |-> group[1].url]

\* short: the result row of one group of at least two priced rows.
ShortResult(code, group) ==
  LET best_row == group[idxmin(group)]
  IN [name |-> best_row.name, code |-> code,
      conf |-> compute_confidence([i \in 1..Len(group) |-> group[i].name]),
      best_price |-> best_row.price, best_retailer |-> best_row.retailer,
      url |-> best_row.url]

\* Mutant of LongExactPass: the exact-code rows scored by name similarity.
RECURSIVE LongExactPass_ByName(_, _)
LongExactPass_ByName(combined, codes) ==
  IF codes = <<>> THEN <<>>
  ELSE LET group == GroupOf(combined, Head(codes))
       IN (IF nunique(group) < 2 THEN <<>>
           ELSE <<LongMerged(Head(codes), group, None)>>)
          \o LongExactPass_ByName(combined, Tail(codes))

\* ------------------------------------------------------ match classifier
\* long, lines 139-168: one merged row, confidence 100.0, per code group with
\* at least two retailers; codes is the sorted key list of the groupby.
RECURSIVE LongExactPass(_, _)
LongExactPass(combined, codes) ==
  IF codes = <<>> THEN <<>>
  ELSE LET group == GroupOf(combined, Head(codes))
       IN (IF nunique(group) < 2 THEN <<>>
           ELSE <<LongMerged(Head(codes), group, 10000)>>)
          \o LongExactPass(combined, Tail(codes))

\* Mutant of all_seen_codes: no code is recorded as seen.
all_seen_codes_None(combined) == {}

\* long, line 171: set(grouped.groups.keys()), every key of the first groupby.
all_seen_codes(combined) == CodesOf(combined)

\* remaining without the filter of line 172: the fallback pass sees every
\* listing.
remaining_All(combined) == combined

\* long, line 172: the rows whose code the first groupby has not seen.
remaining(combined) == FilterCodes(combined, all_seen_codes(combined), FALSE)

\* long, lines 174-205: one merged row, confidence from the names, per group of
\* the residual rows with at least two retailers.
RECURSIVE LongFallbackPass(_, _)
LongFallbackPass(rem, codes) ==
  IF codes = <<>> THEN <<>>
  ELSE LET group == GroupOf(rem, Head(codes))
       IN (IF nunique(group) < 2 THEN <<>>
           ELSE <<LongMerged(Head(codes), group, None)>>)
          \o LongFallbackPass(rem, Tail(codes))

\* long, lines 207-210: the weak / unmatched split of the fallback rows.
IsWeak(row) == row.conf >= HIGHLIGHT_CONFIDENCE_WEAK * 100

WeakRows(rows) == SelectSeq(rows, IsWeak)

UnmatchedRows(rows) == LET Low(r) == ~IsWeak(r) IN SelectSeq(rows, Low)

\* short, lines 139-142: the groups that pass the filter, in key order, each
\* with its priced rows.
ShortKeep(group) == Len(group) >= 2

RECURSIVE ShortGroups(_, _)
ShortGroups(combined, codes) ==
  IF codes = <<>> THEN <<>>
  ELSE LET group == dropna_price(GroupOf(combined, Head(codes)))
       IN (IF ShortKeep(group) THEN <<[code |-> Head(codes), rows |-> group]>>
           ELSE <<>>)
          \o ShortGroups(combined, Tail(codes))

NamesOf(group) == [i \in 1..Len(group) |-> group[i].name]

\* short: whether compute_confidence raises for one of the groups.
ShortRaises(groups) ==
  \E k \in 1..Len(groups) : RaisesTypeError(NamesOf(groups[k].rows))

ShortResults(groups) ==
  [k \in 1..Len(groups) |-> ShortResult(groups[k].code, groups[k].rows)]

\* Mutant of IsMatched: the two branches of the split swapped.
IsMatched_Swapped(row) == row.conf < CONFIDENCE_THRESHOLD * 100

\* short, lines 158-161: the matched / unmatched split.
IsMatched(row) == row.conf >= CONFIDENCE_THRESHOLD * 100

ShortMatched(rows) == SelectSeq(rows, IsMatched)

ShortUnmatched(rows) == LET Low(r) == ~IsMatched(r) IN SelectSeq(rows, Low)

\* short, line 43: sort_values(by="Confidence", ascending=False) with the default
\* (not stable) sort: any arrangement of the rows in non-increasing confidence.
Orderings(n) == {f \in [1..n -> 1..n] : \A i, j \in 1..n : i # j => f[i] # f[j]}

sort_values(rows) ==
  {[i \in 1..Len(rows) |-> rows[f[i]]] : f \in
     {g \in Orderings(Len(rows)) :
        \A i \in 1..(Len(rows) - 1) : rows[g[i]].conf >= rows[g[i + 1]].conf}}

\* ------------------------------------------------------------ folder scan
NoFile == <<>>

\* The files of one folder that are of category c, in os.listdir order.
OfCategory(files, c) == LET Is(f) == f.category = c IN SelectSeq(files, Is)

\* Scan, long line 106 (the last file of a category wins) and short line 96
\* (setdefault: the first file wins).
PickFile(m, files) ==
  IF files = <<>> THEN NoFile
  ELSE IF m = "long" THEN <<files[Len(files)].table>> ELSE <<files[1].table>>

\* Categories in the order category_map first meets them.
RECURSIVE FirstSeen(_, _)
FirstSeen(cs, seen) ==
  IF cs = <<>> THEN <<>>
  ELSE IF Head(cs) \in seen THEN FirstSeen(Tail(cs), seen)
  ELSE <<Head(cs)>> \o FirstSeen(Tail(cs), seen \cup {Head(cs)})

ScanOrder(fs) ==
  LET cats(f) == [i \in 1..Len(fs[f]) |-> fs[f][i].category]
  IN FirstSeen(cats(1) \o cats(2) \o cats(3), {})

\* category_map: the categories in insertion order, and per category the table
\* picked for each retailer folder (NoFile when the folder has none).
BuildCategoryMap(m, fs) ==
  LET order == ScanOrder(fs)
  IN [cats |-> order,
      src |-> [k \in 1..Len(order) |->
                 [f \in Folders |-> PickFile(m, OfCategory(fs[f], order[k]))]]]

\* len(sources)
NumSources(sources) == Cardinality({f \in Folders : sources[f] # NoFile})

\* The reading loop of one category: all_dfs, the prepared tables of the
\* retailers whose file could be read and has the required columns.
RECURSIVE ReadAll(_, _, _)
ReadAll(m, sources, f) ==
  IF f > 3 THEN <<>>
  ELSE LET key == RETAILER_FOLDERS(m)[f]
           got == IF sources[f] = NoFile THEN <<>>
                  ELSE IF ~sources[f][1].readable THEN <<>>
                  ELSE IF m = "long" THEN prepare(sources[f][1], key)
                  ELSE ShortPrepare(sources[f][1], key)
       IN got \o ReadAll(m, sources, f + 1)

\* pd.concat(all_dfs, ignore_index=True)
RECURSIVE Concat(_)
Concat(dfs) == IF dfs = <<>> THEN <<>> ELSE Head(dfs) \o Concat(Tail(dfs))

\* ------------------------------------------------------------------ state
VARIABLES
  mode,                \* which script runs: "long" or "short"
  folders,             \* per retailer folder, its files in os.listdir order
  sinkFails,           \* the categories whose export raises (the sink's failure)
  pc,                  \* "scan", "loop", "compare", "export", "done", "crashed"
  category_map,
  idx,                 \* position of the category loop in category_map
  combined,            \* pd.concat(all_dfs) of the category being compared
  matched_rows,        \* long
  weak_matched_rows,   \* long
  unmatched_rows,      \* long
  matched,             \* short
  unmatched,           \* short
  outFiles,            \* the tables handed to the sink: [category, kind, rows]
  matched_categories,  \* long: the list of compared categories
  matched_count,       \* short: matched_categories
  skipped_categories,  \* short
  skipped_list,        \* the summary's skipped categories
  probe,               \* policy check: per retailer folder, the table of one group
  long_confidence,     \* policy check: the long-form policy's confidence
  short_confidence,    \* policy check: the short-form policy's confidence
  product_code,        \* scrapers: the code extract_sku took from a title
  normalized_code      \* scrapers: per retailer, normalize_sku(product_code)

vars == <<mode, folders, sinkFails, pc, category_map, idx, combined,
          matched_rows, weak_matched_rows, unmatched_rows, matched, unmatched,
          outFiles, matched_categories, matched_count, skipped_categories,
          skipped_list, probe, long_confidence, short_confidence,
          product_code, normalized_code>>

pipelineVars == <<mode, folders, sinkFails, pc, category_map, idx, combined,
                  matched_rows, weak_matched_rows, unmatched_rows, matched,
                  unmatched, outFiles, matched_categories, matched_count,
                  skipped_categories, skipped_list>>

probeVars == <<probe, long_confidence, short_confidence, product_code,
               normalized_code>>

\* ----------------------------------------------------------------- inputs
FullCols == LongCols \cup {"Product URL"}

Table(cols, readable, rows) == [cols |-> cols, readable |-> readable, rows |-> rows]

\* The rows of a table of folder f: each listing with its own product URL.
WithUrls(f, ls) ==
  [i \in 1..Len(ls) |->
     [name |-> ls[i].name, price |-> ls[i].price, code |-> ls[i].code,
      url |-> <<f, i>>]]

Listing(n, p, c) == [name |-> n, price |-> p, code |-> c]

\* Listings of the compared product (code x1), one of them without a price, and
\* one listing of another product (code y).
CoreListings ==
  {Listing(n, p, <<"x", "1">>) : n \in {<<"a">>, <<"b">>}, p \in {1, 2}}
    \cup {Listing(<<"a">>, NaN, <<"x", "1">>), Listing(<<"b">>, 2, <<"y">>)}

\* The tables a folder can hold for a category, with n rows; the table without
\* rows lacks a required column.
CoreTables(f, n) ==
  IF n = 0 THEN {Table(FullCols \ {"Normalized Code"}, TRUE, <<>>)}
  ELSE {Table(FullCols, TRUE, WithUrls(f, ls)) : ls \in [1..n -> CoreListings]}

\* A folder holding at most one file, of category c.
CoreFolders(f, n, c) ==
  {<<[category |-> c, table |-> t]>> : t \in CoreTables(f, n)}
    \cup (IF n = 0 THEN {<<>>} ELSE {})

InitRest ==
  /\ pc = "scan"
  /\ category_map = [cats |-> <<>>, src |-> <<>>]
  /\ idx = 0
  /\ combined = <<>>
  /\ matched_rows = <<>>
  /\ weak_matched_rows = <<>>
  /\ unmatched_rows = <<>>
  /\ matched = <<>>
  /\ unmatched = <<>>
  /\ outFiles = {}
  /\ matched_categories = <<>>
  /\ matched_count = 0
  /\ skipped_categories = 0
  /\ skipped_list = <<>>

\* A scraper that has not normalized the code yet (else: <<code>>).
NotNormalized == <<>>

NoSku ==
  /\ product_code = <<>>
  /\ normalized_code = [f \in Folders |-> NotNormalized]

NoProbe ==
  /\ probe = <<>>
  /\ long_confidence = None
  /\ short_confidence = None
  /\ NoSku

\* One category, at most MaxListings listings in all, at most MaxListings - 1
\* in one retailer's table.
Init ==
  /\ mode \in {"long", "short"}
  /\ sinkFails = {}
  /\ \E n1, n2, n3 \in 0..(MaxListings - 1) :
       /\ n1 + n2 + n3 <= MaxListings
       /\ \E f1 \in CoreFolders(1, n1, "c1"), f2 \in CoreFolders(2, n2, "c1"),
             f3 \in CoreFolders(3, n3, "c1") :
            folders = <<f1, f2, f3>>
  /\ InitRest
  /\ NoProbe

\* ---------------------------------------------------------------- actions
Category == category_map.cats[idx]

Sources == category_map.src[idx]

\* Lines 94-110 (long), 80-100 (short): scan the retailer folders.
Scan ==
  /\ UNCHANGED probeVars
  /\ pc = "scan"
  /\ category_map' = BuildCategoryMap(mode, folders)
  /\ idx' = 1
  /\ pc' = "loop"
  /\ UNCHANGED <<mode, folders, sinkFails, combined, matched_rows,
                 weak_matched_rows, unmatched_rows, matched, unmatched, outFiles,
                 matched_categories, matched_count, skipped_categories,
                 skipped_list>>

\* Lines 116-117 (long), 103-106 (short): a category with fewer than two sources.
SkipCategory ==
  /\ UNCHANGED probeVars
  /\ pc = "loop"
  /\ idx <= Len(category_map.cats)
  /\ NumSources(Sources) < 2
  /\ idx' = idx + 1
  /\ skipped_categories' = IF mode = "short" THEN skipped_categories + 1
                           ELSE skipped_categories
  /\ UNCHANGED <<mode, folders, sinkFails, pc, category_map, combined,
                 matched_rows, weak_matched_rows, unmatched_rows, matched,
                 unmatched, outFiles, matched_categories, matched_count,
                 skipped_list>>

\* Lines 119-138 (long), 108-136 (short): read and prepare the sources; with
\* fewer than two usable tables the category is left.
ReadSources ==
  /\ UNCHANGED probeVars
  /\ pc = "loop"
  /\ idx <= Len(category_map.cats)
  /\ NumSources(Sources) >= 2
  /\ matched_count' = IF mode = "short" THEN matched_count + 1 ELSE matched_count
  /\ LET all_dfs == ReadAll(mode, Sources, 1)
     IN IF Len(all_dfs) < 2
        THEN /\ idx' = idx + 1
             /\ UNCHANGED <<pc, combined>>
        ELSE /\ combined' = Concat(all_dfs)
             /\ pc' = "compare"
             /\ UNCHANGED idx
  /\ UNCHANGED <<mode, folders, sinkFails, category_map, matched_rows,
                 weak_matched_rows, unmatched_rows, matched, unmatched, outFiles,
                 matched_categories, skipped_categories, skipped_list>>

\* Lines 139-210 (long): the exact-code pass and the fallback pass.
\* Lines 137-161 (short): the group loop; compute_confidence may raise, which
\* nothing catches.
Compare ==
  /\ UNCHANGED probeVars
  /\ pc = "compare"
  /\ IF mode = "long"
     THEN LET rem == remaining(combined)
              fallback == LongFallbackPass(rem, SortedStrs(CodesOf(rem)))
          IN /\ matched_rows' = LongExactPass(combined, SortedStrs(CodesOf(combined)))
             /\ weak_matched_rows' = WeakRows(fallback)
             /\ unmatched_rows' = UnmatchedRows(fallback)
             /\ pc' = "export"
             /\ UNCHANGED <<matched, unmatched>>
     ELSE LET groups == ShortGroups(combined, SortedStrs(CodesOf(combined)))
          IN IF ShortRaises(groups)
             THEN /\ pc' = "crashed"
                  /\ UNCHANGED <<matched, unmatched, matched_rows,
                                 weak_matched_rows, unmatched_rows>>
             ELSE /\ matched' = ShortMatched(ShortResults(groups))
                  /\ unmatched' = ShortUnmatched(ShortResults(groups))
                  /\ pc' = "export"
                  /\ UNCHANGED <<matched_rows, weak_matched_rows, unmatched_rows>>
  /\ UNCHANGED <<mode, folders, sinkFails, category_map, idx, combined, outFiles,
                 matched_categories, matched_count, skipped_categories,
                 skipped_list>>

File(c, kind, rows) == [category |-> c, kind |-> kind, rows |-> rows]

\* Lines 212-218 (long), 163-165 (short): export_results for each row list; an
\* empty list writes nothing; a failure of the sink is not caught.
Export ==
  /\ UNCHANGED probeVars
  /\ pc = "export"
  /\ IF mode = "long"
     THEN LET lists == <<matched_rows, weak_matched_rows, unmatched_rows>>
              kinds == <<"long-matched", "long-weak-matched", "long-unmatched">>
              written == {k \in 1..3 : lists[k] # <<>>}
          IN IF Category \in sinkFails /\ written # {}
             THEN /\ pc' = "crashed"
                  /\ UNCHANGED <<outFiles, matched_categories, idx>>
             ELSE /\ outFiles' = outFiles \cup
                       {File(Category, kinds[k], lists[k]) : k \in written}
                  /\ matched_categories' = Append(matched_categories, Category)
                  /\ idx' = idx + 1
                  /\ pc' = "loop"
     ELSE IF Category \in sinkFails /\ (matched # <<>> \/ unmatched # <<>>)
          THEN /\ pc' = "crashed"
               /\ UNCHANGED <<outFiles, matched_categories, idx>>
          ELSE /\ \E m \in sort_values(matched), u \in sort_values(unmatched) :
                    outFiles' = outFiles \cup
                      (IF m = <<>> THEN {} ELSE {File(Category, "short-matched", m)})
                      \cup (IF u = <<>> THEN {}
                            ELSE {File(Category, "short-unmatched", u)})
               /\ idx' = idx + 1
               /\ pc' = "loop"
               /\ UNCHANGED matched_categories
  /\ UNCHANGED <<mode, folders, sinkFails, category_map, combined, matched_rows,
                 weak_matched_rows, unmatched_rows, matched, unmatched,
                 matched_count, skipped_categories, skipped_list>>

\* Lines 220-236 (long), 167-182 (short): the summary.
Summary ==
  /\ UNCHANGED probeVars
  /\ pc = "loop"
  /\ idx > Len(category_map.cats)
  /\ skipped_list' =
       LET Lone(k) == NumSources(category_map.src[k]) < 2
           ks == SelectSeq([k \in 1..Len(category_map.cats) |-> k], Lone)
       IN [i \in 1..Len(ks) |-> category_map.cats[ks[i]]]
  /\ pc' = "done"
  /\ UNCHANGED <<mode, folders, sinkFails, category_map, idx, combined,
                 matched_rows, weak_matched_rows, unmatched_rows, matched,
                 unmatched, outFiles, matched_categories, matched_count,
                 skipped_categories>>

Next == Scan \/ SkipCategory \/ ReadSources \/ Compare \/ Export \/ Summary

Spec == Init /\ [][Next]_vars

\* ------------------------------------------------- the two confidence policies
\* One code group in raw form: per retailer folder the table holding the
\* retailer's listings of the group (all of code x1), or no file.
PolicyListings ==
  {Listing(n, 1, <<"x", "1">>) :
     n \in {<<"a">>, <<"b">>, <<"a", "b">>, <<"a", " ">>, <<"b", " ">>, NaNText}}
    \cup {Listing(<<"a">>, NaN, <<"x", "1">>)}

PolicyTables(f, n) ==
  IF n = 0 THEN {NoFile}
  ELSE {<<Table(FullCols, TRUE, WithUrls(f, ls))>> : ls \in [1..n -> PolicyListings]}

NotProduced == -4

Raised == -5

\* The group as each pipeline reads it.
ProbeGroup(m) == Concat(ReadAll(m, probe, 1))

InitPolicy ==
  /\ \E n1, n2, n3 \in 0..(MaxListings - 1) :
       /\ n1 + n2 + n3 <= MaxListings
       /\ \E t1 \in PolicyTables(1, n1), t2 \in PolicyTables(2, n2),
             t3 \in PolicyTables(3, n3) :
            probe = <<t1, t2, t3>>
  /\ nunique(Concat(ReadAll("long", probe, 1))) >= 2
  /\ long_confidence = None
  /\ short_confidence = None
  /\ mode = "long"
  /\ sinkFails = {}
  /\ folders = <<<<>>, <<>>, <<>>>>
  /\ InitRest
  /\ NoSku

\* long, lines 179-198: the confidence the fallback pass gives the group.
ApplyLongPolicy ==
  /\ long_confidence = None
  /\ long_confidence' = LongMerged(<<"x", "1">>, ProbeGroup("long"), None).conf
  /\ UNCHANGED <<probe, short_confidence, product_code, normalized_code>>
  /\ UNCHANGED pipelineVars

\* short, lines 139-145: the confidence the group loop gives the group; the
\* group is not produced with fewer than two priced rows, and
\* compute_confidence raises on a name that is no text.
ApplyShortPolicy ==
  /\ short_confidence = None
  /\ short_confidence' =
       LET group == dropna_price(ProbeGroup("short"))
       IN IF ~ShortKeep(group) THEN NotProduced
          ELSE IF RaisesTypeError(NamesOf(group)) THEN Raised
          ELSE compute_confidence(NamesOf(group))
  /\ UNCHANGED <<probe, long_confidence, product_code, normalized_code>>
  /\ UNCHANGED pipelineVars

NextPolicy == ApplyLongPolicy \/ ApplyShortPolicy

SpecPolicy == InitPolicy /\ [][NextPolicy]_vars

\* ------------------------------------------------------- a run over folders
\* The files a retailer folder can hold in a run: three tables with one listing
\* of code x1 each, the third with an empty Item Name cell, and a file that
\* read_excel cannot read.
RunTables(f) ==
  {Table(FullCols, TRUE, WithUrls(f, <<Listing(<<"a">>, 1, <<"x", "1">>)>>)),
   Table(FullCols, TRUE, WithUrls(f, <<Listing(<<"b">>, 2, <<"x", "1">>)>>)),
   Table(FullCols, TRUE, WithUrls(f, <<Listing(NaNText, 1, <<"x", "1">>)>>)),
   Table(FullCols, FALSE, <<>>)}

RunCategories == {"c1", "c2"}

\* The listings of a folder with n files, in the order os.listdir returns them.
RunFolders(f, n) ==
  [1..n -> {[category |-> c, table |-> t] : c \in RunCategories, t \in RunTables(f)}]

\* Two categories, at most MaxFiles files in all, at most MaxPerFolder in a folder
\* (a folder may hold several files of one category: the scrapers write one
\* file per category and day).
InitRun ==
  /\ mode \in {"long", "short"}
  /\ sinkFails \in {{}, {"c1"}}
  /\ \E n1, n2, n3 \in 0..MaxPerFolder :
       /\ n1 + n2 + n3 <= MaxFiles
       /\ \E f1 \in RunFolders(1, n1), f2 \in RunFolders(2, n2),
             f3 \in RunFolders(3, n3) :
            folders = <<f1, f2, f3>>
  /\ InitRest
  /\ NoProbe

SpecRun == InitRun /\ [][Next]_vars

\* ----------------------------------------------------- reading the state
\* The combined table of the k-th category of category_map, as the reading loop
\* builds it.
CombinedOf(k) == Concat(ReadAll(mode, category_map.src[k], 1))

\* The k-th category has gone through the comparison (its iteration is over and
\* it was neither skipped nor left for want of two usable tables).
Compared(k) ==
  /\ k \in 1..Len(category_map.cats)
  /\ k < idx
  /\ NumSources(category_map.src[k]) >= 2
  /\ Len(ReadAll(mode, category_map.src[k], 1)) >= 2

CatIndex(c) == CHOOSE k \in 1..Len(category_map.cats) : category_map.cats[k] = c

\* The rows written to the table of the given kind of the k-th category.
RowsOut(k, kind) ==
  LET fs == {f \in outFiles : f.category = category_map.cats[k] /\ f.kind = kind}
  IN IF fs = {} THEN <<>> ELSE (CHOOSE f \in fs : TRUE).rows

LongKinds == {"long-matched", "long-weak-matched", "long-unmatched"}

ShortKinds == {"short-matched", "short-unmatched"}

\* The rows of code c written to the tables of the given kinds for category k.
RowsFor(k, kinds, c) ==
  {p \in UNION {{kind} \X (1..Len(RowsOut(k, kind))) : kind \in kinds} :
     RowsOut(k, p[1])[p[2]].code = c}

RowAt(k, p) == RowsOut(k, p[1])[p[2]]

\* The listings of code c that the k-th category's comparison reads.
Group(k, c) == GroupOf(CombinedOf(k), c)

KnownPrices(group) == {group[i].price : i \in 1..Len(group)} \ {NaN}

\* The codes of category k that listings of at least two retailers carry.
SharedCodes(k) == {c \in CodesOf(CombinedOf(k)) : nunique(Group(k, c)) >= 2}

EveryRow(P(_, _, _)) ==
  \A f \in outFiles : \A i \in 1..Len(f.rows) : P(CatIndex(f.category), f.kind, f.rows[i])

\* ------------------------------------------------------------------ claims
\* C1 as stated: in both pipelines, every non-empty code that listings of two
\* different retailers of a compared category carry is reported as one group
\* with confidence 100.0, whatever the item names.
C1_AsStated ==
  \A k \in 1..Len(category_map.cats) :
    Compared(k) =>
      \A c \in SharedCodes(k) \ {<<>>} :
        \E p \in RowsFor(k, LongKinds \cup ShortKinds, c) : RowAt(k, p).conf = 10000

AllEqual(names) == \A i, j \in 1..Len(names) : names[i] = names[j]

Chars(name) == {name[i] : i \in 1..Len(name)}

\* No two of the names share a character (and none is empty).
NoCommonChar(names) ==
  \A i, j \in 1..Len(names) :
    names[i] # <<>> /\ (i # j => Chars(names[i]) \cap Chars(names[j]) = {})

\* C1 amended: in the long-form pipeline every such code is reported by exactly
\* one row, in the matched table, with confidence 100.0 whatever the names; in
\* the short-form pipeline every code with at least two priced listings is
\* reported by exactly one row, whose confidence is 100.0 when all the priced
\* listings' names are equal and 0.0 when no two of the names share a character.
C1_Amended ==
  \A k \in 1..Len(category_map.cats) :
    Compared(k) =>
      IF mode = "long"
      THEN \A c \in SharedCodes(k) \ {<<>>} :
             /\ Cardinality(RowsFor(k, LongKinds, c)) = 1
             /\ \A p \in RowsFor(k, LongKinds, c) :
                  p[1] = "long-matched" /\ RowAt(k, p).conf = 10000
      ELSE \A c \in CodesOf(CombinedOf(k)) :
             LET priced == dropna_price(Group(k, c))
             IN Len(priced) >= 2 =>
                  /\ Cardinality(RowsFor(k, ShortKinds, c)) = 1
                  /\ \A p \in RowsFor(k, ShortKinds, c) :
                       /\ AllEqual(NamesOf(priced)) => RowAt(k, p).conf = 10000
                       /\ NoCommonChar(NamesOf(priced)) => RowAt(k, p).conf = 0

\* C1 witness: a long-form run has reported a shared code whose two retailers
\* name the item differently.
C1_Witness ==
  /\ mode = "long"
  /\ \E k \in 1..Len(category_map.cats) :
       /\ Compared(k)
       /\ \E c \in SharedCodes(k) \ {<<>>} :
            /\ ~AllEqual(NamesOf(Group(k, c)))
            /\ RowsFor(k, {"long-matched"}, c) # {}

\* C2 as stated: every row of every output table comes from a code group with
\* listings of at least two distinct retailers.
C2_AsStated ==
  EveryRow(LAMBDA k, kind, row : nunique(Group(k, row.code)) >= 2)

\* C3 as stated: for every reported group with a known price, Best Price is the
\* least known price of all the group's listings and Lowest Retailer owns a
\* listing at that price.
C3_AsStated ==
  EveryRow(LAMBDA k, kind, row :
    LET g == Group(k, row.code)
    IN KnownPrices(g) # {} =>
         /\ row.best_price = Min(KnownPrices(g))
         /\ \E i \in 1..Len(g) :
              g[i].retailer = row.best_retailer /\ g[i].price = row.best_price)

\* The first listing of each retailer in a group (the long form's slots).
FirstListings(g) ==
  LET firsts == {i \in 1..Len(g) : \A j \in 1..(i - 1) : g[j].retailer # g[i].retailer}
  IN SelectSeq([i \in 1..Len(g) |-> [idx |-> i, row |-> g[i]]],
               LAMBDA e : e.idx \in firsts)

FirstRows(g) == [i \in 1..Len(FirstListings(g)) |-> FirstListings(g)[i].row]

\* C3 amended: a short-form row is as stated; a long-form row's Best Price is
\* the least known price among the FIRST listing of each retailer in the group
\* (later listings of a retailer are not looked at), Lowest Retailer is a
\* retailer whose first listing has that price, and both are unknown when no
\* first listing has a known price.
C3_Amended ==
  EveryRow(LAMBDA k, kind, row :
    LET g == IF mode = "long" THEN FirstRows(Group(k, row.code))
             ELSE Group(k, row.code)
    IN IF KnownPrices(g) # {}
       THEN /\ row.best_price = Min(KnownPrices(g))
            /\ \E i \in 1..Len(g) :
                 g[i].retailer = row.best_retailer /\ g[i].price = row.best_price
       ELSE row.best_price = None /\ row.best_retailer = NoRetailer)

\* C3 witness: a reported group in which one retailer has two listings with
\* different known prices, the lower of which is the reported Best Price.
C3_Witness ==
  \E f \in outFiles : \E i \in 1..Len(f.rows) :
    LET g == Group(CatIndex(f.category), f.rows[i].code)
    IN \E a, b \in 1..Len(g) :
         /\ a < b
         /\ g[a].retailer = g[b].retailer
         /\ g[a].price # NaN /\ g[b].price # NaN /\ g[a].price # g[b].price
         /\ f.rows[i].best_price = Min({g[a].price, g[b].price})

\* C4 as stated: in both pipelines, a group with listings of at least two
\* retailers and no known price is reported with Best Price and Lowest Retailer
\* unknown.
C4_AsStated ==
  \A k \in 1..Len(category_map.cats) :
    Compared(k) =>
      \A c \in SharedCodes(k) :
        KnownPrices(Group(k, c)) = {} =>
          \E p \in RowsFor(k, LongKinds \cup ShortKinds, c) :
            RowAt(k, p).best_price = None /\ RowAt(k, p).best_retailer = NoRetailer

\* C4 amended: the long-form pipeline reports such a group in one row whose Best
\* Price and Lowest Retailer are unknown; the short-form pipeline drops the
\* group before the price is resolved and reports no row for it (no 0, no
\* error, but no "unknown" either).
C4_Amended ==
  \A k \in 1..Len(category_map.cats) :
    Compared(k) =>
      \A c \in SharedCodes(k) :
        KnownPrices(Group(k, c)) = {} =>
          IF mode = "long"
          THEN /\ Cardinality(RowsFor(k, LongKinds, c)) = 1
               /\ \A p \in RowsFor(k, LongKinds, c) :
                    /\ RowAt(k, p).best_price = None
                    /\ RowAt(k, p).best_retailer = NoRetailer
          ELSE RowsFor(k, ShortKinds, c) = {}

\* C4 witness: a long-form run has reported a group of two retailers none of
\* whose listings has a price.
C4_Witness ==
  /\ mode = "long"
  /\ \E k \in 1..Len(category_map.cats) :
       /\ Compared(k)
       /\ \E c \in SharedCodes(k) :
            KnownPrices(Group(k, c)) = {} /\ RowsFor(k, LongKinds, c) # {}

\* The retailers owning a listing of the group at the group's least known price.
Tied(g) ==
  {g[i].retailer : i \in {j \in 1..Len(g) : g[j].price = Min(KnownPrices(g))}}

\* The earliest of a set of retailers in RETAILER_FOLDERS order.
Earliest(rs) ==
  RETAILER_FOLDERS(mode)[Min({i \in Folders : RETAILER_FOLDERS(mode)[i] \in rs})]

\* C5 as stated: when several retailers tie on the least price of a reported
\* group, Lowest Retailer is the earliest of them in RETAILER_FOLDERS order, in
\* both pipelines.
C5_AsStated ==
  EveryRow(LAMBDA k, kind, row :
    LET g == Group(k, row.code)
    IN (KnownPrices(g) # {} /\ Cardinality(Tied(g)) >= 2) =>
         row.best_retailer = Earliest(Tied(g)))

\* C5 amended: in the short-form pipeline as stated; in the long-form pipeline
\* the tie is among the prices of the retailers' FIRST listings in the group,
\* so the row order inside a retailer's table does matter there.
C5_Amended ==
  EveryRow(LAMBDA k, kind, row :
    LET g == IF mode = "long" THEN FirstRows(Group(k, row.code))
             ELSE Group(k, row.code)
    IN (KnownPrices(g) # {} /\ Cardinality(Tied(g)) >= 2) =>
         row.best_retailer = Earliest(Tied(g)))

\* C5 witness: a reported group in which the second and the third retailer tie
\* on the least price while the first retailer is excluded or dearer.
C5_Witness ==
  \E f \in outFiles : \E i \in 1..Len(f.rows) :
    LET g == Group(CatIndex(f.category), f.rows[i].code)
    IN /\ KnownPrices(g) # {}
       /\ Tied(g) = {RETAILER_FOLDERS(mode)[2], RETAILER_FOLDERS(mode)[3]}
       /\ f.rows[i].best_retailer = RETAILER_FOLDERS(mode)[2]

BothApplied ==
  long_confidence # None /\ short_confidence \notin {None, NotProduced, Raised}

\* C8 as stated: for the same group, the long-form confidence (maximum over the
\* three slots) is at least the short-form confidence (mean over the priced
\* listings).
C8_AsStated == BothApplied => long_confidence >= short_confidence

ProbeRows == Concat([f \in Folders |-> IF probe[f] = NoFile THEN <<>> ELSE probe[f][1].rows])

\* Every retailer has at most one listing in the group, and no name carries
\* leading or trailing whitespace.
OnePerRetailerNoPadding ==
  /\ \A f \in Folders : probe[f] # NoFile => Len(probe[f][1].rows) <= 1
  /\ \A i \in 1..Len(ProbeRows) :
       ProbeRows[i].name # NaNText => Strip(ProbeRows[i].name) = ProbeRows[i].name

\* C8 amended: for a group in which every retailer has at most one listing and
\* no item name has leading or trailing whitespace, the long-form confidence is
\* at least the short-form confidence minus 0.05 (the long form rounds to two
\* decimals, the short form to one, so the rounded mean can exceed the rounded
\* maximum by up to 0.05).
C8_Amended ==
  (BothApplied /\ OnePerRetailerNoPadding) => long_confidence >= short_confidence - 5

\* C8 witness: a group of two listings of different retailers whose rounded
\* long-form confidence (66.67) is below the rounded short-form one (66.7).
C8_Witness ==
  /\ BothApplied
  /\ OnePerRetailerNoPadding
  /\ long_confidence = 6667
  /\ short_confidence = 6670

\* The orders in which os.listdir can return the files of the folders.
Reordered(files) ==
  {[i \in 1..Len(files) |-> files[f[i]]] : f \in Orderings(Len(files))}

Reorderings(fs) ==
  {<<g1, g2, g3>> : g1 \in Reordered(fs[1]), g2 \in Reordered(fs[2]),
                    g3 \in Reordered(fs[3])}

\* What a table says of its groups: per row the code, Best Price and Lowest
\* Retailer (the tier is the table's kind).
RowSet(rows) ==
  {[code |-> rows[i].code, best_price |-> rows[i].best_price,
    best_retailer |-> rows[i].best_retailer] : i \in 1..Len(rows)}

\* The tables a run over the folders fs writes for the category with these
\* sources (none when the category is skipped or the comparison raises), each
\* with the set of its rows.
CategoryResult(m, c, sources) ==
  LET dfs == ReadAll(m, sources, 1)
      comb == Concat(dfs)
      rem == remaining(comb)
      fallback == LongFallbackPass(rem, SortedStrs(CodesOf(rem)))
      groups == ShortGroups(comb, SortedStrs(CodesOf(comb)))
      lists == IF m = "long"
               THEN {<<"long-matched", LongExactPass(comb, SortedStrs(CodesOf(comb)))>>,
                     <<"long-weak-matched", WeakRows(fallback)>>,
                     <<"long-unmatched", UnmatchedRows(fallback)>>}
               ELSE IF ShortRaises(groups) THEN {}
               ELSE {<<"short-matched", ShortMatched(ShortResults(groups))>>,
                     <<"short-unmatched", ShortUnmatched(ShortResults(groups))>>}
  IN IF NumSources(sources) < 2 \/ Len(dfs) < 2 THEN {}
     ELSE {[category |-> c, kind |-> l[1], rows |-> RowSet(l[2])] :
             l \in {x \in lists : x[2] # <<>>}}

RunResult(m, fs) ==
  LET cm == BuildCategoryMap(m, fs)
  IN UNION {CategoryResult(m, cm.cats[k], cm.src[k]) : k \in 1..Len(cm.cats)}

\* C9 as stated: the tier, Best Price and Lowest Retailer of every group a
\* completed run has reported are those a run over the same files reports under
\* every order in which the file system may enumerate the retailer folders.
C9_AsStated ==
  pc = "done" =>
    \A fs \in Reorderings(folders) :
      RunResult(mode, fs) =
        {[category |-> f.category, kind |-> f.kind, rows |-> RowSet(f.rows)] :
           f \in outFiles}

\* C10 as stated: a failure in one category does not prevent the processing of
\* the subsequent categories: the run never ends in an exception while
\* categories of category_map are still to be processed.
C10_AsStated == ~(pc = "crashed" /\ idx < Len(category_map.cats))

\* C10, the part about the summary, as stated: with a sink that never fails,
\* the run does not end in an exception before its summary.  A run of the
\* short script over an empty Item Name cell violates it.
C10_SummaryReached == sinkFails = {} => pc # "crashed"

\* The number of retailers of the k-th category whose table is usable: it was
\* found, could be read and has the required columns.
UsableRetailers(k) == Len(ReadAll(mode, category_map.src[k], 1))

Listed(seq) == {seq[i] : i \in 1..Len(seq)}

\* C11 as stated: once the run has printed its summary, every category that
\* ended with fewer than two usable retailers has no output table and is in the
\* skip summary, whether fewer than two files exist for it or exclusions for
\* missing columns or read failures left fewer than two.
C11_AsStated ==
  pc = "done" =>
    \A k \in 1..Len(category_map.cats) :
      UsableRetailers(k) < 2 =>
        /\ \A f \in outFiles : f.category # category_map.cats[k]
        /\ category_map.cats[k] \in Listed(skipped_list)

\* ------------------------------------------- tables lacking a column
\* The tables of a category whose columns vary: with n rows of code x1, and
\* with all the columns the scrapers write, without the code column or without
\* the URL column (which only the short script requires).
ColumnListings ==
  {Listing(<<"a">>, 1, <<"x", "1">>), Listing(<<"b">>, 2, <<"x", "1">>)}

ColumnSets ==
  {FullCols, FullCols \ {"Normalized Code"}, FullCols \ {"Product URL"}}

ColumnFolders(f) ==
  {<<>>} \cup
  {<<[category |-> "c1", table |-> Table(cols, TRUE, WithUrls(f, ls))]>> :
     cols \in ColumnSets,
     ls \in UNION {[1..n -> ColumnListings] : n \in 0..(MaxListings - 2)}}

InitColumns ==
  /\ mode \in {"long", "short"}
  /\ sinkFails = {}
  /\ folders \in {<<f1, f2, f3>> : f1 \in ColumnFolders(1),
                    f2 \in ColumnFolders(2), f3 \in ColumnFolders(3)}
  /\ InitRest
  /\ NoProbe

SpecColumns == InitColumns /\ [][Next]_vars

\* The retailers whose table of the k-th category lacks a required column, and
\* those whose table is usable.
Excluded(k) ==
  {f \in Folders : /\ category_map.src[k][f] # NoFile
                   /\ ~(REQUIRED_COLUMNS(mode) \subseteq category_map.src[k][f][1].cols)}

Remaining(k) ==
  {f \in Folders : /\ category_map.src[k][f] # NoFile
                   /\ category_map.src[k][f][1].readable
                   /\ REQUIRED_COLUMNS(mode) \subseteq category_map.src[k][f][1].cols}

\* The listings the k-th category's comparison takes from retailer f.
TakenFrom(k, f) ==
  IF f \notin Remaining(k) THEN <<>>
  ELSE IF mode = "long"
       THEN prepare(category_map.src[k][f][1], RETAILER_FOLDERS(mode)[f])[1]
       ELSE ShortPrepare(category_map.src[k][f][1], RETAILER_FOLDERS(mode)[f])[1]

\* A reported row holds nothing of retailer f.
NothingOf(f, kind, row) ==
  /\ row.best_retailer # RETAILER_FOLDERS(mode)[f]
  /\ IF kind \in LongKinds
     THEN row.names[f] = NA_NAME /\ row.prices[f] = NaN
     ELSE row.url = NoUrl \/ row.url[1] # f

\* C12: when a table of a category lacks a required column and at least two
\* other retailers' tables are usable, the category is compared over exactly
\* the listings of those remaining retailers, and no reported row of the
\* category holds a name, price, URL or best retailer of the excluded retailer.
C12_Exclusion ==
  /\ [][(/\ pc = "loop" /\ idx <= Len(category_map.cats)
         /\ Excluded(idx) # {} /\ Cardinality(Remaining(idx)) >= 2)
        => (/\ pc' = "compare"
            /\ combined' = TakenFrom(idx, 1) \o TakenFrom(idx, 2) \o TakenFrom(idx, 3))]_vars
  /\ [](\A f \in outFiles : \A i \in 1..Len(f.rows) :
          \A x \in Excluded(CatIndex(f.category)) : NothingOf(x, f.kind, f.rows[i]))

\* A category was compared and reported although one retailer's table, with a
\* listing in it, lacks a required column.
C12_Witness ==
  /\ outFiles # {}
  /\ \E x \in Excluded(1) : category_map.src[1][x][1].rows # <<>>

\* ------------------------------------------------ codes as the files hold them
\* Listings whose code cell is empty (read as NaN), blank, or the code x in
\* lower case, in upper case and with a trailing blank.
CodeListings ==
  {Listing(<<"a", "b">>, 1, c) : c \in {NaNText, <<" ">>, <<"x">>}}
    \cup {Listing(<<"b">>, 2, c) :
            c \in {NaNText, <<" ">>, <<"X">>, <<"x", " ">>}}

\* A folder without a file of the category, or with one table of n rows.
CodeFolders(f, n) ==
  {<<[category |-> "c1", table |-> Table(FullCols, TRUE, WithUrls(f, ls))]>> :
     ls \in [1..n -> CodeListings]}
    \cup (IF n = 0 THEN {<<>>} ELSE {})

\* One category, at most MaxListings listings in all, at most MaxListings - 2
\* in one retailer's table.
InitCodes ==
  /\ mode \in {"long", "short"}
  /\ sinkFails = {}
  /\ \E n1, n2, n3 \in 0..(MaxListings - 2) :
       /\ n1 + n2 + n3 <= MaxListings
       /\ \E f1 \in CodeFolders(1, n1), f2 \in CodeFolders(2, n2),
             f3 \in CodeFolders(3, n3) :
            folders = <<f1, f2, f3>>
  /\ InitRest
  /\ NoProbe

SpecCodes == InitCodes /\ [][Next]_vars

\* The rows of retailer f's table of the k-th category, as the file holds them.
RawRows(k, f) ==
  IF f \in Remaining(k) THEN category_map.src[k][f][1].rows ELSE <<>>

\* A code cell holding no usable code: empty, or blank.
EmptyCode(c) == c = NaNText \/ Strip(c) = <<>>

\* The slots of a long-form row for the names n and m of retailers f and g (the
\* third retailer, absent, has the placeholder name).
Slots(f, n, g, m) ==
  [h \in Folders |-> IF h = f THEN Strip(n) ELSE IF h = g THEN Strip(m) ELSE NA_NAME]

\* C13 as stated: in the long-form pipeline, two listings of two different
\* retailers that both have an empty code, in a category where no other listing
\* has an empty code, are reported as one fallback group whose confidence is
\* the similarity of their names: in the weak-matched table when it is at least
\* 30, in the unmatched table otherwise.
C13_AsStated ==
  (mode = "long" /\ pc = "done") =>
    \A k \in 1..Len(category_map.cats) : \A f, g \in Remaining(k) :
      (/\ f < g
       /\ \A h \in Folders :
            Len(SelectSeq(RawRows(k, h), LAMBDA r : EmptyCode(r.code)))
              = (IF h \in {f, g} THEN 1 ELSE 0))
      => LET n == SelectSeq(RawRows(k, f), LAMBDA r : EmptyCode(r.code))[1].name
             m == SelectSeq(RawRows(k, g), LAMBDA r : EmptyCode(r.code))[1].name
             conf == LongConfidence(Slots(f, n, g, m))
             kind == IF conf >= HIGHLIGHT_CONFIDENCE_WEAK * 100
                     THEN "long-weak-matched" ELSE "long-unmatched"
         IN \E i \in 1..Len(RowsOut(k, kind)) :
              /\ RowsOut(k, kind)[i].names = Slots(f, n, g, m)
              /\ RowsOut(k, kind)[i].conf = conf

\* A code cell holding a usable code.
UsableCode(c) == ~EmptyCode(c)

\* C14 as stated: in either pipeline every code the comparison groups by is
\* lower-case without leading or trailing whitespace, and two listings of a
\* compared category whose usable raw codes differ only by letter case or
\* surrounding whitespace are in the same group.
C14_AsStated ==
  pc \in {"compare", "export"} =>
    /\ \A i \in 1..Len(combined) : combined[i].code = Lower(Strip(combined[i].code))
    /\ \A f, g \in Remaining(idx) :
         \A i \in 1..Len(RawRows(idx, f)), j \in 1..Len(RawRows(idx, g)) :
           LET c == RawRows(idx, f)[i].code
               d == RawRows(idx, g)[j].code
           IN (UsableCode(c) /\ UsableCode(d) /\ Lower(Strip(c)) = Lower(Strip(d)))
              => \E code \in CodesOf(combined) :
                   LET group == GroupOf(combined, code)
                       In(h, name) == \E r \in 1..Len(group) :
                                        /\ group[r].retailer = RETAILER_FOLDERS(mode)[h]
                                        /\ Strip(group[r].name) = Strip(name)
                   IN In(f, RawRows(idx, f)[i].name) /\ In(g, RawRows(idx, g)[j].name)

\* C15: every short-form row takes its Item Name, Best Price, Lowest Retailer
\* and Product URL from one listing of its code group, that listing has the
\* least known price of the group, and the short-form tables of a category
\* hold at most one row per code.
C15_RowConsistency ==
  EveryRow(LAMBDA k, kind, row :
    kind \in ShortKinds =>
      /\ \E i \in 1..Len(Group(k, row.code)) :
           LET l == Group(k, row.code)[i]
           IN /\ l.name = row.name /\ l.price = row.best_price
              /\ l.retailer = row.best_retailer /\ l.url = row.url
              /\ l.price = Min(KnownPrices(Group(k, row.code)))
      /\ Cardinality(RowsFor(k, ShortKinds, row.code)) = 1)

\* A short-form row was written for a group whose cheapest listing is not its
\* first one and has another name.
C15_Witness ==
  \E f \in outFiles : \E i \in 1..Len(f.rows) :
    /\ f.kind \in ShortKinds
    /\ LET g == Group(CatIndex(f.category), f.rows[i].code)
       IN /\ g[1].price # NaN /\ g[1].price > f.rows[i].best_price
          /\ g[1].name # f.rows[i].name

\* ------------------------------------------- several groups in one table
\* Priced listings of two products, x and y, at 2B and Btech, reported by the
\* short script: with two listings of each product there are two result rows.
SortListings ==
  {Listing(n, 1, c) : n \in {<<"a">>, <<"b">>}, c \in {<<"x">>, <<"y">>}}

SortFolders(f) ==
  {<<>>} \cup
  {<<[category |-> "c1", table |-> Table(FullCols, TRUE, WithUrls(f, ls))]>> :
     ls \in UNION {[1..n -> SortListings] : n \in 0..(MaxListings - 1)}}

InitSort ==
  /\ mode = "short"
  /\ sinkFails = {}
  /\ folders \in {<<f1, f2, <<>>>> : f1 \in SortFolders(1), f2 \in SortFolders(2)}
  /\ InitRest
  /\ NoProbe

SpecSort == InitSort /\ [][Next]_vars

C16_NonIncreasing ==
  \A f \in outFiles :
    f.kind \in ShortKinds =>
      \A i \in 1..(Len(f.rows) - 1) : f.rows[i].conf >= f.rows[i + 1].conf

\* C17: in the long-form pipeline the fallback pass gets no listing: after the
\* comparison of a category the weak-matched and unmatched row lists are empty,
\* and every row written to a long-form table has confidence 100.0.
C17_ResidualEmpty ==
  /\ (mode = "long" /\ pc \in {"compare", "export"}) => remaining(combined) = <<>>
  /\ mode = "long" => (weak_matched_rows = <<>> /\ unmatched_rows = <<>>)
  /\ EveryRow(LAMBDA k, kind, row :
       kind \in LongKinds => (kind = "long-matched" /\ row.conf = 10000))

\* A long-form comparison has reported a group while the category also has a
\* code that one retailer alone lists (a code the primary pass did not group).
C17_Witness ==
  /\ mode = "long" /\ pc = "export" /\ matched_rows # <<>>
  /\ \E c \in CodesOf(combined) : nunique(GroupOf(combined, c)) = 1

\* ------------------------------------------------------------- scrapers
\* The characters of a product code: letters in both cases, a digit, the
\* separators the scrapers remove, and a dot, which extract_sku of the 2B and
\* Raneen scrapers admits inside a code.
MaxSkuLen == 3

SkuChars == {"X", "x", "1", "-", " ", "."}

\* [a-zA-Z0-9]
IsAlnum(c) == c \in {"A", "B", "N", "X", "Y", "a", "b", "n", "x", "y", "1"}

\* [-_\s]
IsSeparator(c) == c \in {"-", "_", " "}

\* re.sub(pattern, '', sku) for a pattern matching single characters.
Remove(sku, Matches(_)) == SelectSeq(sku, LAMBDA c : ~Matches(c))

\* normalize_sku of the 2B scraper and of the Raneen scraper.
normalize_sku_2B(sku) ==
  IF sku = <<>> THEN <<>> ELSE Lower(Remove(sku, IsSeparator))

normalize_sku_Raneen(sku) ==
  IF sku = <<>> THEN <<>> ELSE Lower(Remove(sku, IsSeparator))

\* normalize_sku of the Btech scraper.
normalize_sku_Btech(sku) ==
  IF sku = <<>> THEN <<>> ELSE Lower(Remove(sku, LAMBDA c : ~IsAlnum(c)))

\* A product code of at most MaxSkuLen characters, not yet normalized.
InitSku ==
  /\ product_code \in UNION {[1..n -> SkuChars] : n \in 0..MaxSkuLen}
  /\ normalized_code = [f \in Folders |-> NotNormalized]
  /\ probe = <<>>
  /\ long_confidence = None
  /\ short_confidence = None
  /\ mode = "long"
  /\ sinkFails = {}
  /\ folders = <<<<>>, <<>>, <<>>>>
  /\ InitRest

\* 2B scraper, line 131: normalized_code = normalize_sku(product_code).
Normalize2B ==
  /\ normalized_code[1] = NotNormalized
  /\ normalized_code' =
       [normalized_code EXCEPT ![1] = <<normalize_sku_2B(product_code)>>]
  /\ UNCHANGED <<probe, long_confidence, short_confidence, product_code>>
  /\ UNCHANGED pipelineVars

\* Btech scraper, line 166.
NormalizeBtech ==
  /\ normalized_code[2] = NotNormalized
  /\ normalized_code' =
       [normalized_code EXCEPT ![2] = <<normalize_sku_Btech(product_code)>>]
  /\ UNCHANGED <<probe, long_confidence, short_confidence, product_code>>
  /\ UNCHANGED pipelineVars

\* Raneen scraper, line 152.
NormalizeRaneen ==
  /\ normalized_code[3] = NotNormalized
  /\ normalized_code' =
       [normalized_code EXCEPT ![3] = <<normalize_sku_Raneen(product_code)>>]
  /\ UNCHANGED <<probe, long_confidence, short_confidence, product_code>>
  /\ UNCHANGED pipelineVars

NextSku == Normalize2B \/ NormalizeBtech \/ NormalizeRaneen

SpecSku == InitSku /\ [][NextSku]_vars

\* C18 as stated: once the three scrapers have normalized the same product
\* code, the three normalized codes are equal.
C18_AsStated ==
  (\A f \in Folders : normalized_code[f] # NotNormalized) =>
    \A f, g \in Folders : normalized_code[f] = normalized_code[g]

====
